---- MODULE Spec2Model ----
(***************************************************************************)
(* Star Chameleon (starchameleon.py): the tournament round                 *)
(* (process_prompt), the session orchestrator (star_chameleon) and the     *)
(* final averaging, as a state machine.  One action per segment of code    *)
(* between two suspension points (each awaited gateway call, the capacity  *)
(* limiter).  The text generation call and the ranking parser are the      *)
(* environment: their results are drawn from the sets held in `gateway`.   *)
(***************************************************************************)
EXTENDS Integers, Sequences, FiniteSets, TLC

(* ------------------------------ bounds --------------------------------- *)

\* number of candidate models passed to star_chameleon (a prefix of main's list)
NumModels == 2
\* size of the prompt pool passed to star_chameleon (a prefix of the generated list)
PoolSize == 2
\* largest capacity of the limiter that is explored (the code's value is CAPACITY_LIMIT)
MaxCapacity == 2
\* longest story text the gateway returns in the text-rich specification
MaxStoryLen == 3

(* ------------------------- program constants --------------------------- *)

CAPACITY_LIMIT == 1

\* process_prompt prints the interim table when total_calls is a multiple of this
PRINT_EVERY == 50

\* main(): the model names, in the order of the list
ModelNames ==
    << "claude-3-haiku-20240307", "claude-3-sonnet-20240229",
       "claude-3-5-haiku-20241022", "claude-3-opus-20240229",
       "claude-3-5-sonnet-20240620", "claude-3-5-sonnet-20241022" >>

\* generate_unique_prompts(): (prompt text, target length), the first entries
GeneratedPrompts ==
    << <<"cyberpunk noir", 500>>, <<"love letter", 300>>,
       <<"bedtime story", 400>>, <<"space station", 600>>,
       <<"five haiku", 100>> >>

\* the characters story texts are made of
Letters == << "a", "b", "c", "d", "e", "f" >>

(* ------------------------------ helpers -------------------------------- *)

\* the list `models` of star_chameleon: model names, in input order
models == SubSeq(ModelNames, 1, NumModels)

ModelSet == {models[k] : k \in 1..NumModels}

Rounds == 1..PoolSize

RECURSIVE SumSeq(_)
\* sum(ranks)
SumSeq(s) == IF s = <<>> THEN 0 ELSE Head(s) + SumSeq(Tail(s))

RECURSIVE GCD(_, _)
GCD(a, b) == IF b = 0 THEN a ELSE GCD(b, a % b)

\* the quotient a / b (b > 0) of two naturals as a fraction in lowest terms:
\* << numerator, denominator >>
Quotient(a, b) == << a \div GCD(a, b), b \div GCD(a, b) >>

Num(q) == q[1]

Den(q) == q[2]

\* the number 0
Zero == << 0, 1 >>

\* all orderings of the positions 1..n
Perms(n) == {p \in [1..n -> 1..n] : \A a, b \in 1..n : p[a] = p[b] => a = b}

\* list.index(x): the 0-based position of the first element equal to x
RECURSIVE IndexFrom(_, _, _)
IndexFrom(s, x, k) ==
    IF k > Len(s) THEN -1
    ELSE IF s[k] = x THEN k - 1 ELSE IndexFrom(s, x, k + 1)

ListIndex(s, x) == IndexFrom(s, x, 1)

\* x in list
InList(s, x) == \E k \in 1..Len(s) : s[k] = x

\* (mutant) the midpoint rounded up for the first half only
FirstHalfRoundedUp(story) == SubSeq(story, 1, (Len(story) + 1) \div 2)

\* story[:half] and story[half:] with half = len(story) // 2
FirstHalf(story) == SubSeq(story, 1, Len(story) \div 2)

SecondHalf(story) == SubSeq(story, (Len(story) \div 2) + 1, Len(story))

\* one entry of original_stories
OriginalStory(model, story) ==
    [ model |-> model, story |-> story,
      first_half |-> FirstHalf(story), second_half |-> SecondHalf(story) ]

\* one entry of continuations
Continuation(original_model, continuing_model, text) ==
    [ original_model |-> original_model, continuing_model |-> continuing_model,
      continuation |-> text ]

\* the ordered pairs (i, j), i # j, of the continuation loops, after (i, j)
Later(i, j, a, b) == a > i \/ (a = i /\ b > j)

\* (mutant) every ordered pair, a model continuing its own story included
PairsAfterWithSelf(i, j) ==
    {p \in (1..NumModels) \X (1..NumModels) : Later(i, j, p[1], p[2])}

PairsAfter(i, j) ==
    {p \in (1..NumModels) \X (1..NumModels) : p[1] # p[2] /\ Later(i, j, p[1], p[2])}

NextPair(i, j) ==
    CHOOSE p \in PairsAfter(i, j) :
        \A q \in PairsAfter(i, j) : p = q \/ Later(p[1], p[2], q[1], q[2])

\* [(cont["continuation"], cont["continuing_model"]) for cont in continuations
\*  if cont["original_model"] == model]
RECURSIVE ImitationPairs(_, _)
ImitationPairs(conts, model) ==
    IF conts = <<>> THEN <<>>
    ELSE (IF Head(conts).original_model = model
          THEN << <<Head(conts).continuation, Head(conts).continuing_model>> >>
          ELSE <<>>) \o ImitationPairs(Tail(conts), model)

\* continuation_pairs before the shuffle: the authentic second half first
ContinuationPairs(original_story, conts) ==
    << <<original_story.second_half, original_story.model>> >>
        \o ImitationPairs(conts, original_story.model)

\* the orders random.shuffle can leave continuation_pairs in
Shuffles(pairs) == {[k \in 1..Len(pairs) |-> pairs[p[k]]] : p \in Perms(Len(pairs))}

\* (mutant) a draw with replacement: random.choices(prompts, k=k)
SamplesWithReplacement(pool, k) ==
    {[x \in 1..k |-> pool[f[x]]] : f \in [1..k -> 1..Len(pool)]}

\* random.sample(prompts, k): k distinct positions, in any order; there is none
\* when k exceeds len(prompts), and random.sample raises ValueError
Samples(pool, k) ==
    {[n \in 1..k |-> pool[f[n]]] :
        f \in {g \in [1..k -> 1..Len(pool)] : \A a, b \in 1..k : g[a] = g[b] => a = b}}

\* results as star_chameleon creates it
FreshResults ==
    [ prompts |-> <<>>, guesses |-> <<>>,
      model_performance |->
        [m \in ModelSet |->
            [ correct_guesses |-> 0, times_guessed_correctly |-> 0,
              times_fooled_others |-> 0, average_rank |-> <<>> ]] ]

\* rank_of_correct of a non-empty ranking
RankOfCorrect(ranking, correct_index) ==
    IF InList(ranking, correct_index + 1)
    THEN ListIndex(ranking, correct_index + 1) + 1
    ELSE Len(ranking)

\* (mutant) a wrong top pick is credited to the judge that made it
AttributeToJudge(perf, judge, original_model, ranking, correct_index, authors, pool_size) ==
    LET guess == ranking[1]
        ranked == [perf EXCEPT ![judge].average_rank =
                      Append(@, RankOfCorrect(ranking, correct_index))]
    IN  IF guess = correct_index + 1
        THEN [[ranked EXCEPT ![judge].correct_guesses = @ + 1]
                  EXCEPT ![original_model].times_guessed_correctly = @ + 1]
        ELSE IF 1 <= guess /\ guess <= pool_size
        THEN [ranked EXCEPT ![judge].times_fooled_others = @ + 1]
        ELSE ranked

\* (mutant) a top pick beyond the pool is taken as its last entry
AttributeClamped(perf, judge, original_model, ranking, correct_index, authors, pool_size) ==
    LET guess == ranking[1]
        ranked == [perf EXCEPT ![judge].average_rank =
                      Append(@, RankOfCorrect(ranking, correct_index))]
    IN  IF guess = correct_index + 1
        THEN [[ranked EXCEPT ![judge].correct_guesses = @ + 1]
                  EXCEPT ![original_model].times_guessed_correctly = @ + 1]
        ELSE IF 1 <= guess /\ guess <= pool_size
        THEN [ranked EXCEPT ![authors[guess]].times_fooled_others = @ + 1]
        ELSE [ranked EXCEPT ![authors[pool_size]].times_fooled_others = @ + 1]

\* (mutant) a correct top pick is credited to the judge on both counters
AttributeCorrectToJudge(perf, judge, original_model, ranking, correct_index, authors, pool_size) ==
    LET guess == ranking[1]
        ranked == [perf EXCEPT ![judge].average_rank =
                      Append(@, RankOfCorrect(ranking, correct_index))]
    IN  IF guess = correct_index + 1
        THEN [[ranked EXCEPT ![judge].correct_guesses = @ + 1]
                  EXCEPT ![judge].times_guessed_correctly = @ + 1]
        ELSE IF 1 <= guess /\ guess <= pool_size
        THEN [ranked EXCEPT ![authors[guess]].times_fooled_others = @ + 1]
        ELSE ranked

\* model_performance after one judged ranking (non-empty)
Attribute(perf, judge, original_model, ranking, correct_index, authors, pool_size) ==
    LET guess == ranking[1]
        ranked == [perf EXCEPT ![judge].average_rank =
                      Append(@, RankOfCorrect(ranking, correct_index))]
    IN  IF guess = correct_index + 1
        THEN [[ranked EXCEPT ![judge].correct_guesses = @ + 1]
                  EXCEPT ![original_model].times_guessed_correctly = @ + 1]
        ELSE IF 1 <= guess /\ guess <= pool_size
        THEN [ranked EXCEPT ![authors[guess]].times_fooled_others = @ + 1]
        ELSE ranked

\* (mutant) a Guess is recorded only for a correct top pick
IdentifyCorrectOnly(res, judge, original_model, ranking, correct_index, authors, pool_size) ==
    IF ranking = <<>> \/ ranking[1] # correct_index + 1 THEN res
    ELSE [res EXCEPT
            !.guesses = Append(@,
                [ guessing_model |-> judge, original_model |-> original_model,
                  ranking |-> ranking, correct_index |-> correct_index + 1,
                  rank_of_correct |-> 1 ]),
            !.model_performance =
                [[@ EXCEPT ![judge].average_rank = Append(@, 1),
                           ![judge].correct_guesses = @ + 1]
                    EXCEPT ![original_model].times_guessed_correctly = @ + 1]]

\* (mutant) a response that does not parse counts as the worst rank
IdentifyFailureAsWorst(res, judge, original_model, ranking, correct_index, authors, pool_size) ==
    IF ranking = <<>>
    THEN [res EXCEPT !.model_performance[judge].average_rank = Append(@, pool_size)]
    ELSE [res EXCEPT
            !.guesses = Append(@,
                [ guessing_model |-> judge, original_model |-> original_model,
                  ranking |-> ranking, correct_index |-> correct_index + 1,
                  rank_of_correct |-> RankOfCorrect(ranking, correct_index) ]),
            !.model_performance =
                Attribute(@, judge, original_model, ranking, correct_index,
                          authors, pool_size)]

\* (mutant) the newest Guess is put at the head of the log
IdentifyNewestFirst(res, judge, original_model, ranking, correct_index, authors, pool_size) ==
    IF ranking = <<>> THEN res
    ELSE [res EXCEPT
            !.guesses =
                << [ guessing_model |-> judge, original_model |-> original_model,
                     ranking |-> ranking, correct_index |-> correct_index + 1,
                     rank_of_correct |-> RankOfCorrect(ranking, correct_index) ] >> \o @,
            !.model_performance =
                Attribute(@, judge, original_model, ranking, correct_index,
                          authors, pool_size)]

\* results after the identification of one story by one judge
Identify(res, judge, original_model, ranking, correct_index, authors, pool_size) ==
    IF ranking = <<>> THEN res
    ELSE [res EXCEPT
            !.guesses = Append(@,
                [ guessing_model |-> judge, original_model |-> original_model,
                  ranking |-> ranking, correct_index |-> correct_index + 1,
                  rank_of_correct |-> RankOfCorrect(ranking, correct_index) ]),
            !.model_performance =
                Attribute(@, judge, original_model, ranking, correct_index,
                          authors, pool_size)]

\* (mutant) integer division: sum(ranks) // len(ranks)
MeanFloored(ranks) ==
    IF ranks = <<>> THEN Zero ELSE Quotient(SumSeq(ranks) \div Len(ranks), 1)

\* sum(ranks) / len(ranks) if ranks else 0
Mean(ranks) == IF ranks = <<>> THEN Zero ELSE Quotient(SumSeq(ranks), Len(ranks))

\* the averaging loop at the end of star_chameleon
Averaged(res) ==
    [res EXCEPT !.model_performance =
        [m \in ModelSet |-> [res.model_performance[m] EXCEPT !.average_rank = Mean(@)]]]

\* (mutant) the guesses others got right about the model are subtracted
FoolingRowOfAuthor(perf) ==
    LET total_guesses == Len(perf.average_rank)
        times_got_fooled ==
            IF total_guesses > 0 THEN total_guesses - perf.times_guessed_correctly ELSE 0
    IN  [ times_fooled_others |-> perf.times_fooled_others,
          times_got_fooled |-> times_got_fooled,
          success_rate |-> IF times_got_fooled > 0
                           THEN Quotient(perf.times_fooled_others, times_got_fooled)
                           ELSE Zero ]

\* one line of the interim table: the loop body of print_fooling_results
FoolingRow(perf) ==
    LET total_guesses == Len(perf.average_rank)
        times_got_fooled ==
            IF total_guesses > 0 THEN total_guesses - perf.correct_guesses ELSE 0
    IN  [ times_fooled_others |-> perf.times_fooled_others,
          times_got_fooled |-> times_got_fooled,
          success_rate |-> IF times_got_fooled > 0
                           THEN Quotient(perf.times_fooled_others, times_got_fooled)
                           ELSE Zero ]

\* print_fooling_results(results): the table it logs
PrintFoolingResults(res) == [m \in ModelSet |-> FoolingRow(res.model_performance[m])]

(* ------------------------------- state --------------------------------- *)

VARIABLES
    prompts,        \* star_chameleon's argument: the prompt pool
    num_prompts,    \* star_chameleon's argument
    capacity,       \* total tokens of the CapacityLimiter
    gateway,        \* what the gateway and the ranking parser can return in this run
    session,        \* where star_chameleon is: init, running, finalized, returned, error
    selected,       \* the sample drawn; round r processes selected[r]
    rounds,         \* per started process_prompt task: its position and local variables
    borrowers,      \* the limiter: tasks holding a token
    waiters,        \* the limiter: tasks parked in acquire, first come first
    total_calls,    \* global counter of gateway calls
    total_expected_calls,
    results,        \* the Results structure shared by all rounds
    returned,       \* the values star_chameleon has returned: none, or results
    history,        \* per round, the shuffles and parsed rankings drawn so far
    fooling_log     \* the interim table print_fooling_results logged last: none, or one

vars ==
    << prompts, num_prompts, capacity, gateway, session, selected, rounds, borrowers,
       waiters, total_calls, total_expected_calls, results, returned, history,
       fooling_log >>

\* a task that was not started; also the local variables at the start of a task
IdleRound ==
    [ pc |-> "idle", i |-> 0, j |-> 0, original_stories |-> <<>>, continuations |-> <<>>,
      all_continuations |-> <<>>, continuation_authors |-> <<>>, correct_index |-> 0 ]

NoHistory == [shuffles |-> <<>>, rankings |-> <<>>]

(* ------------------- what the environment can return ------------------- *)

Prefix(k) == SubSeq(Letters, 1, k)

IdentityRanking == [k \in 1..NumModels |-> k]

ReverseRanking == [k \in 1..NumModels |-> NumModels + 1 - k]

\* every story text up to MaxStoryLen ("" is a failed call); a continuation may
\* be any text that is the second half of one of them; rankings parse or do not
TextGateway ==
    [ stories |-> {Prefix(k) : k \in 0..MaxStoryLen},
      continuations |-> {SecondHalf(Prefix(k)) : k \in 0..MaxStoryLen},
      rankings |-> {<<>>, IdentityRanking} ]

\* parsed rankings: none, every permutation of 1..N, one entry only, one entry too
\* many starting with N+1; a continuation may or may not equal the second half
RankingGateway ==
    [ stories |-> {Prefix(1)},
      continuations |-> {Prefix(1), SubSeq(Letters, 2, 2)},
      rankings |-> {<<>>} \cup Perms(NumModels) \cup {<<k>> : k \in 1..NumModels}
                     \cup {<<NumModels + 1>> \o IdentityRanking} ]

\* one story text, one continuation text, a ranking that parses or does not
SessionGateway ==
    [ stories |-> {Prefix(2)},
      continuations |-> {SubSeq(Letters, 3, 3)},
      rankings |-> {<<>>, ReverseRanking} ]

(* ------------------------------ initial -------------------------------- *)

InitCommon ==
    /\ session = "init"
    /\ selected = <<>>
    /\ rounds = [r \in Rounds |-> IdleRound]
    /\ borrowers = {}
    /\ waiters = <<>>
    /\ total_calls = 0
    /\ total_expected_calls = 0
    /\ results = FreshResults
    /\ returned = <<>>
    /\ history = [r \in Rounds |-> NoHistory]
    /\ fooling_log = <<>>

\* a session: any number of prompts, also more than the pool holds; any capacity
Init ==
    /\ prompts = SubSeq(GeneratedPrompts, 1, PoolSize)
    /\ num_prompts \in 0..(PoolSize + 1)
    /\ capacity \in CAPACITY_LIMIT..MaxCapacity
    /\ gateway = SessionGateway
    /\ InitCommon

\* one round, the limiter as the code sets it
InitRound(gw) ==
    /\ prompts = SubSeq(GeneratedPrompts, 1, 1)
    /\ num_prompts = 1
    /\ capacity = CAPACITY_LIMIT
    /\ gateway = gw
    /\ InitCommon

(* ------------------------------ actions -------------------------------- *)

n == Len(models)

\* (mutant) the token is put back without waking the first parked task
ReleasedWithoutWake(r) ==
    [borrowers |-> borrowers \ {r}, waiters |-> waiters, woken |-> {}]

\* the limiter after task r released its token: the first waiter gets it
Released(r) ==
    IF waiters = <<>>
    THEN [borrowers |-> borrowers \ {r}, waiters |-> waiters, woken |-> {}]
    ELSE [ borrowers |-> (borrowers \ {r}) \cup {Head(waiters)},
           waiters |-> Tail(waiters), woken |-> {Head(waiters)} ]

\* (mutant) a limiter that only keeps the order of arrival
CanAcquireUncounted == waiters = <<>>

\* acquire_nowait succeeds: a token is free and nobody is parked
CanAcquire == Cardinality(borrowers) < capacity /\ waiters = <<>>

\* the position of a task that has just got its token: the first original story
Entered(rd) == [rd EXCEPT !.pc = "orig", !.i = 1]

\* star_chameleon up to the nursery: counters, results, the sample, one task per prompt
Launch ==
    /\ session = "init"
    /\ total_calls' = 0
    /\ total_expected_calls' = num_prompts * (n + n * (n - 1) + n * n)
    /\ results' = FreshResults
    /\ IF Samples(prompts, num_prompts) = {}
       THEN /\ session' = "error"
            /\ UNCHANGED <<selected, rounds>>
       ELSE /\ session' = "running"
            /\ selected' \in Samples(prompts, num_prompts)
            /\ rounds' = [r \in Rounds |->
                            IF r <= num_prompts THEN [IdleRound EXCEPT !.pc = "start"]
                            ELSE IdleRound]
    /\ UNCHANGED <<prompts, num_prompts, capacity, gateway, borrowers, waiters,
                   returned, history, fooling_log>>

\* process_prompt up to `async with limiter`: print the interim table every
\* PRINT_EVERY calls, then take a token or park
Enter(r) ==
    /\ rounds[r].pc = "start"
    /\ fooling_log' = IF total_calls % PRINT_EVERY = 0
                      THEN <<PrintFoolingResults(results)>>
                      ELSE fooling_log
    /\ IF CanAcquire
       THEN /\ borrowers' = borrowers \cup {r}
            /\ rounds' = [rounds EXCEPT ![r] = Entered(@)]
            /\ UNCHANGED waiters
       ELSE /\ waiters' = Append(waiters, r)
            /\ rounds' = [rounds EXCEPT ![r].pc = "waiting"]
            /\ UNCHANGED borrowers
    /\ UNCHANGED <<prompts, num_prompts, capacity, gateway, session, selected,
                   total_calls, total_expected_calls, results, returned, history>>

\* (mutant) a round gives up when the call for an original story failed
OrigReturnAbortsOnEmpty(r) ==
    /\ rounds[r].pc = "orig"
    /\ \E story \in gateway.stories :
        LET rd == rounds[r]
            stories == Append(rd.original_stories, OriginalStory(models[rd.i], story))
        IN  rounds' = [rounds EXCEPT ![r] =
                IF story = <<>>
                THEN [rd EXCEPT !.pc = "done"]
                ELSE IF rd.i < n
                THEN [rd EXCEPT !.original_stories = stories, !.i = rd.i + 1]
                ELSE IF PairsAfter(1, 0) # {}
                THEN [rd EXCEPT !.original_stories = stories, !.pc = "cont",
                                !.i = NextPair(1, 0)[1], !.j = NextPair(1, 0)[2]]
                ELSE [rd EXCEPT !.original_stories = stories, !.pc = "shuffle",
                                !.i = 0, !.j = 1]]
    /\ total_calls' = total_calls + 1
    /\ UNCHANGED <<prompts, num_prompts, capacity, gateway, session, selected,
                   borrowers, waiters, total_expected_calls, results, returned, history,
                   fooling_log>>

\* one original story: the gateway call and the split
OrigReturn(r) ==
    /\ rounds[r].pc = "orig"
    /\ \E story \in gateway.stories :
        LET rd == rounds[r]
            stories == Append(rd.original_stories, OriginalStory(models[rd.i], story))
        IN  rounds' = [rounds EXCEPT ![r] =
                IF rd.i < n
                THEN [rd EXCEPT !.original_stories = stories, !.i = rd.i + 1]
                ELSE IF PairsAfter(1, 0) # {}
                THEN [rd EXCEPT !.original_stories = stories, !.pc = "cont",
                                !.i = NextPair(1, 0)[1], !.j = NextPair(1, 0)[2]]
                ELSE [rd EXCEPT !.original_stories = stories, !.pc = "shuffle",
                                !.i = 0, !.j = 1]]
    /\ total_calls' = total_calls + 1
    /\ UNCHANGED <<prompts, num_prompts, capacity, gateway, session, selected,
                   borrowers, waiters, total_expected_calls, results, returned, history,
                   fooling_log>>

\* one continuation: model i continues the first half of story j
ContReturn(r) ==
    /\ rounds[r].pc = "cont"
    /\ \E text \in gateway.continuations :
        LET rd == rounds[r]
            conts == Append(rd.continuations,
                        Continuation(rd.original_stories[rd.j].model, models[rd.i], text))
        IN  rounds' = [rounds EXCEPT ![r] =
                IF PairsAfter(rd.i, rd.j) # {}
                THEN [rd EXCEPT !.continuations = conts,
                                !.i = NextPair(rd.i, rd.j)[1],
                                !.j = NextPair(rd.i, rd.j)[2]]
                ELSE [rd EXCEPT !.continuations = conts, !.pc = "shuffle",
                                !.i = 0, !.j = 1]]
    /\ total_calls' = total_calls + 1
    /\ UNCHANGED <<prompts, num_prompts, capacity, gateway, session, selected,
                   borrowers, waiters, total_expected_calls, results, returned, history,
                   fooling_log>>

\* (mutant) the position the authentic entry had before the shuffle
CorrectIndexBeforeShuffle(all_continuations, second_half) == 0

\* correct_index = all_continuations.index(original_story["second_half"])
CorrectIndex(all_continuations, second_half) == ListIndex(all_continuations, second_half)

\* the pool of story j is built and shuffled; the authentic entry is looked up
Shuffle(r) ==
    /\ rounds[r].pc = "shuffle"
    /\ LET rd == rounds[r]
           original_story == rd.original_stories[rd.j]
       IN  \E continuation_pairs \in
                   Shuffles(ContinuationPairs(original_story, rd.continuations)) :
             LET all == [k \in 1..Len(continuation_pairs) |-> continuation_pairs[k][1]]
                 authors == [k \in 1..Len(continuation_pairs) |-> continuation_pairs[k][2]]
             IN  /\ rounds' = [rounds EXCEPT ![r] =
                        [rd EXCEPT !.all_continuations = all,
                                   !.continuation_authors = authors,
                                   !.correct_index = CorrectIndex(all, original_story.second_half),
                                   !.pc = "ident", !.i = 1]]
                 /\ history' = [history EXCEPT ![r].shuffles = Append(@, continuation_pairs)]
    /\ UNCHANGED <<prompts, num_prompts, capacity, gateway, session, selected,
                   borrowers, waiters, total_calls, total_expected_calls, results,
                   returned, fooling_log>>

\* the prompt record process_prompt appends when it is through
PromptRecord(r, rd) ==
    [ prompt_text |-> selected[r][1], target_length |-> selected[r][2],
      original_stories |-> rd.original_stories, continuations |-> rd.continuations ]

\* (mutant) the shuffled pool kept in one place for all tasks: a task reads the
\* pool of another task that is judging, when there is one
JudgedRoundShared(r) ==
    IF \E x \in Rounds \ {r} : rounds[x].pc = "ident"
    THEN CHOOSE x \in Rounds \ {r} : rounds[x].pc = "ident"
    ELSE r

\* the round whose local variables the identification of task r reads
JudgedRound(r) == r

\* one identification: judge i ranks the pool of story j; after the last one the
\* prompt record is appended and the token released
IdentReturn(r) ==
    /\ rounds[r].pc = "ident"
    /\ \E ranking \in gateway.rankings :
        LET rd == rounds[r]
            seen == rounds[JudgedRound(r)]
            judged == Identify(results, models[rd.i], rd.original_stories[rd.j].model,
                               ranking, seen.correct_index, seen.continuation_authors,
                               Len(seen.all_continuations))
            lim == Released(r)
        IN  /\ history' = [history EXCEPT ![r].rankings = Append(@, ranking)]
            /\ IF rd.i < n
               THEN /\ rounds' = [rounds EXCEPT ![r].i = rd.i + 1]
                    /\ results' = judged
                    /\ UNCHANGED <<borrowers, waiters>>
               ELSE IF rd.j < n
               THEN /\ rounds' = [rounds EXCEPT ![r].pc = "shuffle", ![r].i = 0,
                                                ![r].j = rd.j + 1]
                    /\ results' = judged
                    /\ UNCHANGED <<borrowers, waiters>>
               ELSE /\ results' = [judged EXCEPT !.prompts = Append(@, PromptRecord(r, rd))]
                    /\ borrowers' = lim.borrowers
                    /\ waiters' = lim.waiters
                    /\ rounds' = [x \in Rounds |->
                                    IF x = r THEN [rd EXCEPT !.pc = "done"]
                                    ELSE IF x \in lim.woken THEN Entered(rounds[x])
                                    ELSE rounds[x]]
    /\ total_calls' = total_calls + 1
    /\ UNCHANGED <<prompts, num_prompts, capacity, gateway, session, selected,
                   total_expected_calls, returned, fooling_log>>

\* (mutant) the nursery block is left as soon as the tasks are started
NurseryNotAwaited == TRUE

\* every task of the nursery is through
AllRoundsDone == \A r \in Rounds : rounds[r].pc \in {"idle", "done"}

\* the nursery block is left: the average ranks are computed
Finalize ==
    /\ session = "running"
    /\ AllRoundsDone
    /\ session' = "finalized"
    /\ results' = Averaged(results)
    /\ UNCHANGED <<prompts, num_prompts, capacity, gateway, selected, rounds, borrowers,
                   waiters, total_calls, total_expected_calls, returned, history,
                   fooling_log>>

\* return results
Return ==
    /\ session = "finalized"
    /\ returned' = Append(returned, results)
    /\ session' = "returned"
    /\ UNCHANGED <<prompts, num_prompts, capacity, gateway, selected, rounds, borrowers,
                   waiters, total_calls, total_expected_calls, results, history,
                   fooling_log>>

(* ----------------------- a failing round ---------------------------- *)

\* A call of log() is the one statement of the scoring block that can raise (the
\* standard output is closed, a text cannot be encoded); it follows the changes of
\* results.  The exception leaves `async with limiter`, which gives the token to
\* the first parked task, and reaches the nursery, which cancels its scope: the
\* tasks still parked leave the lot with Cancelled at once, the task woken by the
\* release and the tasks whose call is in flight go on to their next checkpoint.
IdentFails(r) ==
    /\ session \in {"running", "cancelling"}
    /\ rounds[r].pc = "ident"
    /\ \E ranking \in gateway.rankings :
        LET rd == rounds[r]
            lim == Released(r)
        IN  /\ history' = [history EXCEPT ![r].rankings = Append(@, ranking)]
            /\ results' = Identify(results, models[rd.i], rd.original_stories[rd.j].model,
                                   ranking, rd.correct_index, rd.continuation_authors,
                                   Len(rd.all_continuations))
            /\ borrowers' = lim.borrowers
            /\ waiters' = <<>>
            /\ rounds' = [x \in Rounds |->
                            IF x = r THEN [rd EXCEPT !.pc = "failed"]
                            ELSE IF x \in lim.woken THEN [rounds[x] EXCEPT !.pc = "stopping"]
                            ELSE IF rounds[x].pc = "waiting"
                            THEN [rounds[x] EXCEPT !.pc = "cancelled"]
                            ELSE rounds[x]]
    /\ session' = "cancelling"
    /\ total_calls' = total_calls + 1
    /\ UNCHANGED <<prompts, num_prompts, capacity, gateway, selected,
                   total_expected_calls, returned, fooling_log>>

\* A task of a cancelled nursery runs to its next checkpoint, where Cancelled is
\* raised: a task not yet in the limiter at `async with limiter`; a task holding a
\* token at the checkpoint that opens trio.to_thread.run_sync, after
\* get_claude_completion has counted the call.  A call already in flight is not
\* abandoned: its response is handled as always (an identification is scored)
\* before the next call raises.  The last identification of a round has no next
\* call: the round appends its prompt record and ends.  A task that has just got
\* its token may not have started its first call yet.
Unwind(r) ==
    /\ session = "cancelling"
    /\ rounds[r].pc \in {"start", "stopping", "orig", "cont", "ident"}
    /\ LET rd == rounds[r]
           lim == Released(r)
       IN  IF rd.pc = "start"
           THEN /\ rounds' = [rounds EXCEPT ![r].pc = "cancelled"]
                /\ fooling_log' = IF total_calls % PRINT_EVERY = 0
                                  THEN <<PrintFoolingResults(results)>>
                                  ELSE fooling_log
                /\ UNCHANGED <<borrowers, waiters, total_calls, results, history>>
           ELSE IF rd.pc = "stopping"
           THEN /\ rounds' = [rounds EXCEPT ![r].pc = "cancelled"]
                /\ total_calls' = total_calls + 1
                /\ borrowers' = lim.borrowers
                /\ waiters' = lim.waiters
                /\ UNCHANGED <<results, history, fooling_log>>
           ELSE IF rd.pc = "orig"
           THEN /\ \E started \in (IF rd.i = 1 THEN BOOLEAN ELSE {TRUE}) :
                     IF started
                     THEN /\ \E story \in gateway.stories :
                               rounds' = [rounds EXCEPT ![r] =
                                  [rd EXCEPT !.pc = "cancelled",
                                             !.original_stories = Append(@,
                                                  OriginalStory(models[rd.i], story))]]
                          /\ total_calls' = total_calls + 2
                     ELSE /\ rounds' = [rounds EXCEPT ![r].pc = "cancelled"]
                          /\ total_calls' = total_calls + 1
                /\ borrowers' = lim.borrowers
                /\ waiters' = lim.waiters
                /\ UNCHANGED <<results, history, fooling_log>>
           ELSE IF rd.pc = "cont"
           THEN /\ \E text \in gateway.continuations :
                     rounds' = [rounds EXCEPT ![r] =
                        [rd EXCEPT !.pc = "cancelled",
                                   !.continuations = Append(@,
                                        Continuation(rd.original_stories[rd.j].model,
                                                     models[rd.i], text))]]
                /\ total_calls' = total_calls + 2
                /\ borrowers' = lim.borrowers
                /\ waiters' = lim.waiters
                /\ UNCHANGED <<results, history, fooling_log>>
           ELSE \E ranking \in gateway.rankings :
                  LET judged == Identify(results, models[rd.i],
                                         rd.original_stories[rd.j].model, ranking,
                                         rd.correct_index, rd.continuation_authors,
                                         Len(rd.all_continuations))
                      last == rd.i = n /\ rd.j = n
                  IN  /\ history' = [history EXCEPT ![r].rankings = Append(@, ranking)]
                      /\ results' = IF last
                                    THEN [judged EXCEPT
                                            !.prompts = Append(@, PromptRecord(r, rd))]
                                    ELSE judged
                      /\ rounds' = [rounds EXCEPT ![r].pc =
                                        IF last THEN "done" ELSE "cancelled"]
                      /\ total_calls' = total_calls + (IF last THEN 1 ELSE 2)
                      /\ borrowers' = lim.borrowers
                      /\ waiters' = lim.waiters
                      /\ UNCHANGED fooling_log
    /\ UNCHANGED <<prompts, num_prompts, capacity, gateway, session, selected,
                   total_expected_calls, returned>>

\* every task of the cancelled nursery has ended
AllRoundsEnded ==
    \A r \in Rounds : rounds[r].pc \in {"idle", "done", "failed", "cancelled"}

\* (mutant) the exception of the nursery block is caught and the session goes on
NurserySwallows ==
    /\ session = "cancelling"
    /\ \A r \in Rounds : rounds[r].pc \in {"idle", "done", "failed", "cancelled"}
    /\ session' = "finalized"
    /\ results' = Averaged(results)
    /\ UNCHANGED <<prompts, num_prompts, capacity, gateway, selected, rounds, borrowers,
                   waiters, total_calls, total_expected_calls, returned, history,
                   fooling_log>>

\* the nursery block raises the exception of the failed task: star_chameleon is
\* left without the averaging and without a return value
NurseryRaises ==
    /\ session = "cancelling"
    /\ AllRoundsEnded
    /\ session' = "error"
    /\ UNCHANGED <<prompts, num_prompts, capacity, gateway, selected, rounds, borrowers,
                   waiters, total_calls, total_expected_calls, results, returned, history,
                   fooling_log>>

Next ==
    \/ Launch
    \/ \E r \in Rounds : Enter(r)
    \/ \E r \in Rounds : OrigReturn(r)
    \/ \E r \in Rounds : ContReturn(r)
    \/ \E r \in Rounds : Shuffle(r)
    \/ \E r \in Rounds : IdentReturn(r)
    \/ Finalize
    \/ Return

\* a session
Spec == Init /\ [][Next]_vars

\* a session in which the logging of a scoring may fail
NextFaulty ==
    \/ Launch
    \/ \E r \in Rounds : session = "running" /\ Enter(r)
    \/ \E r \in Rounds : session = "running" /\ OrigReturn(r)
    \/ \E r \in Rounds : session = "running" /\ ContReturn(r)
    \/ \E r \in Rounds : Shuffle(r)
    \/ \E r \in Rounds : session = "running" /\ IdentReturn(r)
    \/ \E r \in Rounds : IdentFails(r)
    \/ \E r \in Rounds : Unwind(r)
    \/ NurseryRaises
    \/ Finalize
    \/ Return

SpecFaulty == Init /\ [][NextFaulty]_vars

\* a step of task r
RoundStep(r) ==
    Enter(r) \/ OrigReturn(r) \/ ContReturn(r) \/ Shuffle(r) \/ IdentReturn(r)

\* trio runs every task that can run, and every gateway call returns; the
\* orchestrator itself goes on when it can
Fairness ==
    /\ WF_session(Launch)
    /\ WF_session(Finalize)
    /\ WF_session(Return)
    /\ \A r \in Rounds : WF_rounds(RoundStep(r))

\* a session under fair scheduling
SpecFair == Init /\ [][Next]_vars /\ Fairness

\* one round, every story text
SpecRound == InitRound(TextGateway) /\ [][Next]_vars

\* one round, every kind of parsed ranking
SpecJudge == InitRound(RankingGateway) /\ [][Next]_vars

(* ------------------------------- claims -------------------------------- *)

\* the original stories a round holds and those in the prompt log
StoredStories ==
    UNION {{rounds[r].original_stories[k] : k \in 1..Len(rounds[r].original_stories)}
              : r \in Rounds}
    \cup UNION {{results.prompts[p].original_stories[k]
                    : k \in 1..Len(results.prompts[p].original_stories)}
                  : p \in 1..Len(results.prompts)}

\* C1: every stored original story satisfies first_half + second_half = story,
\* and its first_half has exactly len(story) // 2 characters; this for every
\* text the gateway returns, the empty one and those of odd length included.
C1_SplitReproducesStory ==
    \A os \in StoredStories :
        /\ os.first_half \o os.second_half = os.story
        /\ Len(os.first_half) = Len(os.story) \div 2
        /\ Len(os.first_half) + Len(os.second_half) = Len(os.story)

\* an empty story and a story of odd length >= 3 are both in a finished round's record
C1_Witness ==
    /\ Len(results.prompts) > 0
    /\ \E os \in StoredStories : os.story = <<>>
    /\ \E os \in StoredStories : Len(os.story) % 2 = 1 /\ Len(os.story) >= 3

\* the (judge, story) pairs of round r whose ranking did not parse, or whose top
\* pick is no entry of the pool
FailedPairs(r) ==
    {k \in 1..Len(history[r].rankings) :
        \/ history[r].rankings[k] = <<>>
        \/ history[r].rankings[k][1] \notin 1..NumModels}

\* C2: a completed round (one prompt, N models) has put exactly N original stories
\* and N*(N-1) continuations in its prompt record and has appended at most N*N
\* guesses, fewer than N*N only if a parse or guess failure occurred for some pair.
C2_RecordCounts ==
    (num_prompts = 1 /\ rounds[1].pc = "done") =>
        /\ Len(results.prompts) = 1
        /\ Len(results.prompts[1].original_stories) = NumModels
        /\ Len(results.prompts[1].continuations) = NumModels * (NumModels - 1)
        /\ Len(results.guesses) <= NumModels * NumModels
        /\ Len(results.guesses) < NumModels * NumModels => FailedPairs(1) # {}

\* a completed round that appended some guesses but fewer than N*N
C2_Witness ==
    /\ num_prompts = 1
    /\ rounds[1].pc = "done"
    /\ Len(results.guesses) > 0
    /\ Len(results.guesses) < NumModels * NumModels

\* C3: while a story's pool is being judged, correct_index + 1 lies in 1..N, the
\* pool has N entries and the entry shown at that position is the story's
\* second_half text, for every shuffle, also when a continuation has the same text.
C3_CorrectIndexIsAuthenticText ==
    \A r \in Rounds :
        rounds[r].pc = "ident" =>
            /\ Len(rounds[r].all_continuations) = NumModels
            /\ rounds[r].correct_index + 1 \in 1..NumModels
            /\ rounds[r].all_continuations[rounds[r].correct_index + 1]
                 = rounds[r].original_stories[rounds[r].j].second_half

\* a shuffled pool of empty texts only (every call failed), the entry of the
\* original author not in first place
C3_Witness ==
    \E r \in Rounds :
        /\ rounds[r].pc = "ident"
        /\ rounds[r].original_stories[rounds[r].j].second_half = <<>>
        /\ \A k \in 1..NumModels : rounds[r].all_continuations[k] = <<>>
        /\ rounds[r].continuation_authors[1] # rounds[r].original_stories[rounds[r].j].model

\* C4: every recorded Guess over a pool of N entries has rank_of_correct in 1..N,
\* and rank_of_correct = N when correct_index + 1 does not occur in its ranking
\* (for every ranking the parser returns, shorter or longer than N included).
C4_RankWithinPool ==
    \A k \in 1..Len(results.guesses) :
        LET g == results.guesses[k]
        IN  /\ g.rank_of_correct \in 1..NumModels
            /\ ~InList(g.ranking, g.correct_index) => g.rank_of_correct = NumModels

\* the counters of model_performance, without the rank sequences
Counters(perf, field) == [m \in ModelSet |-> perf[m][field]]

\* field of who is one more in q than in p, every other model's is the same
OnlyIncremented(p, q, field, who) ==
    \A m \in ModelSet :
        q[m][field] = p[m][field] + (IF m = who THEN 1 ELSE 0)

SameField(p, q, field) == \A m \in ModelSet : q[m][field] = p[m][field]

\* C5: one judged pair (judge J, story of author O) whose top pick g is in 1..N:
\* if g = correct_index + 1, exactly J's correct_guesses and O's
\* times_guessed_correctly grow by 1 and no times_fooled_others changes; otherwise
\* exactly the times_fooled_others of the author label shuffled to position g
\* grows by 1 and no correct_guesses or times_guessed_correctly changes.
C5_Attribution ==
    [][ \A r \in Rounds :
          (rounds[r].pc = "ident"
             /\ Len(history'[r].rankings) = Len(history[r].rankings) + 1) =>
            LET ranking == history'[r].rankings[Len(history'[r].rankings)]
                J == models[rounds[r].i]
                O == rounds[r].original_stories[rounds[r].j].model
                p == results.model_performance
                q == results'.model_performance
            IN  (ranking # <<>> /\ ranking[1] \in 1..NumModels) =>
                  IF ranking[1] = rounds[r].correct_index + 1
                  THEN /\ OnlyIncremented(p, q, "correct_guesses", J)
                       /\ OnlyIncremented(p, q, "times_guessed_correctly", O)
                       /\ SameField(p, q, "times_fooled_others")
                  ELSE /\ OnlyIncremented(p, q, "times_fooled_others",
                                          rounds[r].continuation_authors[ranking[1]])
                       /\ SameField(p, q, "correct_guesses")
                       /\ SameField(p, q, "times_guessed_correctly")
      ]_vars

\* both cases have happened: a judge other than the imitator was fooled by an
\* imitator's entry, and a judge picked the authentic entry of another model
C5_Witness ==
    /\ \E k \in 1..Len(results.guesses) :
          /\ results.guesses[k].ranking[1] \in 1..NumModels
          /\ results.guesses[k].ranking[1] # results.guesses[k].correct_index
    /\ \E m \in ModelSet :
          /\ results.model_performance[m].times_fooled_others > 0
          /\ results.model_performance[m].average_rank = <<>>
    /\ \E k \in 1..Len(results.guesses) :
          /\ results.guesses[k].ranking[1] = results.guesses[k].correct_index
          /\ results.guesses[k].guessing_model # results.guesses[k].original_model

\* the rounds between their first generation call and their prompt record
InFlight == {r \in Rounds : rounds[r].pc \in {"orig", "cont", "shuffle", "ident"}}

\* C6: at most `capacity` rounds are in flight; a round in flight holds a token, so
\* every gateway call and every change of the guess log, the counters or the prompt
\* log is made by a round holding one; a token is given back only in the step that
\* appends the round's prompt record.
C6_CapacityBoundsRounds ==
    /\ [](/\ Cardinality(InFlight) <= capacity
          /\ Cardinality(borrowers) <= capacity
          /\ InFlight \subseteq borrowers)
    /\ [][ /\ (total_calls' # total_calls /\ session = "running") =>
                \E r \in borrowers \cap InFlight : rounds'[r] # rounds[r]
           /\ (session = "running" /\ session' = "running" /\ results' # results) =>
                \E r \in borrowers \cap InFlight : rounds'[r] # rounds[r]
           /\ \A r \in Rounds :
                (r \in borrowers /\ r \notin borrowers') =>
                    /\ r \in InFlight
                    /\ rounds'[r].pc = "done"
                    /\ Len(results'.prompts) = Len(results.prompts) + 1
                    /\ results'.prompts[Len(results'.prompts)].prompt_text
                         = selected[r][1]
         ]_vars

\* the limiter is full with the code's capacity: one round has made calls and
\* recorded guesses while another one is parked
C6_Witness ==
    /\ capacity = CAPACITY_LIMIT
    /\ Cardinality(InFlight) = capacity
    /\ waiters # <<>>
    /\ Len(results.guesses) > 0

\* C7: the averaging happens once, after every started round is through; from
\* then on no round changes the guess log, the prompt log or a rank sequence,
\* and results is returned only after the averaging.
C7_FinalizeOnceAfterRounds ==
    /\ [](session \in {"finalized", "returned"} =>
            /\ \A r \in Rounds : rounds[r].pc \in {"idle", "done"}
            /\ \A r \in Rounds : r <= num_prompts => rounds[r].pc = "done"
            /\ Len(results.prompts) = num_prompts
            /\ \A m \in ModelSet : Den(results.model_performance[m].average_rank) >= 1)
    /\ [](returned # <<>> => session = "returned" /\ returned = <<results>>)
    /\ [][ /\ session \in {"finalized", "returned"} =>
                /\ results' = results
                /\ rounds' = rounds
                /\ session' \in {"finalized", "returned"}
           /\ session' = "finalized" /\ session # "finalized" =>
                /\ session = "running"
                /\ results'.guesses = results.guesses
                /\ results'.prompts = results.prompts
           /\ returned' # returned => session = "finalized"
         ]_vars

\* a session of two rounds has returned, with guesses recorded
C7_Witness ==
    /\ session = "returned"
    /\ num_prompts = 2
    /\ Len(returned[1].guesses) > 0

\* C8: when num_prompts exceeds the size of the pool, star_chameleon fails before
\* a round is started: no gateway call, no guess, no prompt record, nothing returned.
C8_SampleSizeErrorBeforeRounds ==
    num_prompts > Len(prompts) =>
        /\ session \in {"init", "error"}
        /\ \A r \in Rounds : rounds[r].pc = "idle"
        /\ total_calls = 0
        /\ borrowers = {}
        /\ results.guesses = <<>>
        /\ results.prompts = <<>>
        /\ returned = <<>>

\* star_chameleon has failed on a sample larger than the pool
C8_Witness == session = "error" /\ num_prompts > Len(prompts)

RECURSIVE RankSum(_, _)
\* the sum of rank_of_correct over the guesses of judge m in a guess log
RankSum(log, m) ==
    IF log = <<>> THEN 0
    ELSE (IF Head(log).guessing_model = m THEN Head(log).rank_of_correct ELSE 0)
            + RankSum(Tail(log), m)

\* the number of guesses of judge m in a guess log
RankCount(log, m) == Cardinality({k \in 1..Len(log) : log[k].guessing_model = m})

\* C9: after the averaging, every model's average_rank is the sum of the
\* rank_of_correct values recorded for it as judge divided by their number, and
\* is 0 for a model with none (every ranking of it failed to parse).
C9_AverageRankIsMean ==
    session \in {"finalized", "returned"} =>
        \A m \in ModelSet :
            LET a == results.model_performance[m].average_rank
            IN  IF RankCount(results.guesses, m) = 0
                THEN Num(a) = 0 /\ Den(a) = 1
                ELSE /\ Den(a) > 0
                     /\ Num(a) * RankCount(results.guesses, m)
                          = RankSum(results.guesses, m) * Den(a)

\* averaged: one model has no rank at all, another a mean that is no integer
C9_Witness ==
    /\ session = "finalized"
    /\ \E m \in ModelSet : RankCount(results.guesses, m) = 0
    /\ \E m \in ModelSet : Den(results.model_performance[m].average_rank) > 1

RECURSIVE ReplayRound(_, _, _)
\* results after the judgements k, k+1, ... of round r, made one after the other
\* from the round's own stories, shuffles and parsed rankings
ReplayRound(res, r, k) ==
    IF k > Len(history[r].rankings) THEN res
    ELSE LET story == rounds[r].original_stories[((k - 1) \div NumModels) + 1]
             pairs == history[r].shuffles[((k - 1) \div NumModels) + 1]
             all == [x \in 1..Len(pairs) |-> pairs[x][1]]
             authors == [x \in 1..Len(pairs) |-> pairs[x][2]]
         IN  ReplayRound(
                 Identify(res, models[((k - 1) % NumModels) + 1], story.model,
                          history[r].rankings[k], ListIndex(all, story.second_half),
                          authors, Len(all)),
                 r, k + 1)

RECURSIVE ReplaySession(_, _)
\* results after the rounds r, r+1, ..., each run alone, in the order they were started
ReplaySession(res, r) ==
    IF r > num_prompts \/ r > PoolSize THEN res
    ELSE ReplaySession(ReplayRound(res, r, 1), r + 1)

\* the same entries, the same number of times
SameBag(a, b) ==
    /\ Len(a) = Len(b)
    /\ \A k \in 1..Len(a) :
          Cardinality({x \in 1..Len(a) : a[x] = a[k]})
            = Cardinality({x \in 1..Len(b) : b[x] = a[k]})

\* C10: for given prompts, gateway responses and shuffles of each round, the final
\* model_performance (counters and averaged ranks) and the guesses as a multiset
\* are those of the rounds run one after the other, whatever the interleaving and
\* the capacity; only the order of the log entries may differ.
C10_InterleavingIndependent ==
    session \in {"finalized", "returned"} =>
        /\ results.model_performance
             = Averaged(ReplaySession(FreshResults, 1)).model_performance
        /\ SameBag(results.guesses, ReplaySession(FreshResults, 1).guesses)

\* two rounds ran at the same time and the guess log is in another order than
\* that of the rounds run one after the other
C10_Witness ==
    /\ session = "returned"
    /\ capacity > 1
    /\ num_prompts = 2
    /\ Len(results.guesses) > NumModels * NumModels
    /\ results.guesses # ReplaySession(FreshResults, 1).guesses
    /\ results.prompts[1].prompt_text = selected[1][1]

\* the line of model m that the claim describes, from the guess log and the counters
RowMatchesLog(row, res, m) ==
    LET fooled == RankCount(res.guesses, m) - res.model_performance[m].correct_guesses
    IN  /\ row.times_got_fooled = fooled
        /\ row.times_fooled_others = res.model_performance[m].times_fooled_others
        /\ Den(row.success_rate) > 0
        /\ IF fooled = 0 THEN Num(row.success_rate) = 0
           ELSE Num(row.success_rate) * fooled
                  = res.model_performance[m].times_fooled_others * Den(row.success_rate)

\* C11: while the rounds run, the table print_fooling_results computes has, for
\* every model, times_got_fooled = (number of Guess records with that model as
\* guessing_model) - correct_guesses, and success_rate = times_fooled_others /
\* times_got_fooled, or 0 when times_got_fooled is 0; each table a round prints
\* before it asks for a slot is that table of the results at that moment.
C11_FoolingTable ==
    /\ [](session = "running" =>
            \A m \in ModelSet : RowMatchesLog(PrintFoolingResults(results)[m], results, m))
    /\ [][ \A r \in Rounds :
             (rounds[r].pc = "start" /\ rounds'[r].pc # "start"
                /\ total_calls % PRINT_EVERY = 0) =>
               /\ Len(fooling_log') = 1
               /\ \A m \in ModelSet : RowMatchesLog(fooling_log'[1][m], results, m) ]_vars

\* a table was printed, and the results now hold a judge with a right and a wrong
\* top pick and a success rate above 0, and a judge with no guess at all
C11_Witness ==
    /\ session = "running"
    /\ fooling_log # <<>>
    /\ \E m \in ModelSet :
          /\ results.model_performance[m].correct_guesses > 0
          /\ PrintFoolingResults(results)[m].times_got_fooled > 0
          /\ Num(PrintFoolingResults(results)[m].success_rate) > 0
    /\ \E m \in ModelSet : RankCount(results.guesses, m) = 0

\* round r handles the response of one identification call in this step
Judges(r) ==
    /\ rounds[r].pc = "ident"
    /\ Len(history'[r].rankings) = Len(history[r].rankings) + 1

\* the ranking parsed from that response
Judged(r) == history'[r].rankings[Len(history'[r].rankings)]

\* after the response round r goes on with the next judge, the next story, or ends
\* by appending its prompt record
GoesOn(r) ==
    IF rounds[r].i < NumModels
    THEN rounds'[r].pc = "ident" /\ rounds'[r].i = rounds[r].i + 1
            /\ rounds'[r].j = rounds[r].j /\ results'.prompts = results.prompts
    ELSE IF rounds[r].j < NumModels
    THEN rounds'[r].pc = "shuffle" /\ rounds'[r].j = rounds[r].j + 1
            /\ results'.prompts = results.prompts
    ELSE rounds'[r].pc = "done" /\ Len(results'.prompts) = Len(results.prompts) + 1

\* C12: when the ranking parsed for a (judge, story) pair is empty, the step leaves
\* the guess log and every model's counters and rank sequence as they were, and
\* the round goes on with the next judge (or story, or its prompt record).
C12_ParseFailureSkipsScoring ==
    [][ \A r \in Rounds :
          (Judges(r) /\ Judged(r) = <<>>) =>
             /\ results'.guesses = results.guesses
             /\ results'.model_performance = results.model_performance
             /\ GoesOn(r) ]_vars

\* a response that did not parse, followed by one of the next judge that was scored
C12_Witness ==
    \E r \in Rounds : \E k \in 1..Len(history[r].rankings) :
        /\ history[r].rankings[k] = <<>>
        /\ k < Len(history[r].rankings)
        /\ history[r].rankings[k + 1] # <<>>
        /\ k = 1
        /\ Len(results.guesses) = Len(history[r].rankings) - 1

\* the parsed ranking is not empty and its top pick is no position of the pool
InvalidGuess(r) ==
    /\ Judged(r) # <<>>
    /\ ~(Judged(r)[1] \in 1..Len(rounds[r].all_continuations))

C14_RankingIsPermutation ==
    \A k \in 1..Len(results.guesses) :
        LET ranking == results.guesses[k].ranking
        IN  /\ Len(ranking) = NumModels
            /\ \A a \in 1..Len(ranking) : ranking[a] \in 1..NumModels
            /\ \A a, b \in 1..Len(ranking) : ranking[a] = ranking[b] => a = b

\* C15: no identification step adds to the times_fooled_others of the original
\* author of the story being judged, whatever the texts of the pool are.
C15_AuthorNeverFooledByOwnStory ==
    [][ \A r \in Rounds :
          Judges(r) =>
            LET O == rounds[r].original_stories[rounds[r].j].model
            IN  results'.model_performance[O].times_fooled_others
                  = results.model_performance[O].times_fooled_others ]_vars

\* round r has a step to take
CanStep(r) ==
    ENABLED (OrigReturn(r) \/ ContReturn(r) \/ Shuffle(r) \/ IdentReturn(r))

\* C16: whatever the gateway returned so far, the empty text of a failed call
\* included, a round holding a slot always has its next step, the session is not
\* in error, and a round that is through has made all its N + N(N-1) + N*N calls
\* and appended its prompt record with N stories and N(N-1) continuations.
C16_FailedCallNeverAborts ==
    /\ num_prompts <= Len(prompts) => session # "error"
    /\ \A r \in Rounds :
        /\ rounds[r].pc \in {"orig", "cont", "shuffle", "ident"} => CanStep(r)
        /\ rounds[r].pc = "done" =>
            /\ Len(rounds[r].original_stories) = NumModels
            /\ Len(rounds[r].continuations) = NumModels * (NumModels - 1)
            /\ Len(history[r].rankings) = NumModels * NumModels
            /\ \E k \in 1..Len(results.prompts) :
                  /\ results.prompts[k].prompt_text = selected[r][1]
                  /\ results.prompts[k].original_stories = rounds[r].original_stories
                  /\ results.prompts[k].continuations = rounds[r].continuations
    /\ (session = "running" /\ \A r \in Rounds : rounds[r].pc \in {"idle", "done"}) =>
            total_calls = total_expected_calls

\* a round that is through although a story call, a continuation call and an
\* identification call failed, the first story call among them
C16_Witness ==
    \E r \in Rounds :
        /\ rounds[r].pc = "done"
        /\ rounds[r].original_stories[1].story = <<>>
        /\ rounds[r].original_stories[NumModels].story # <<>>
        /\ \E k \in 1..Len(rounds[r].continuations) :
              rounds[r].continuations[k].continuation = <<>>
        /\ history[r].rankings[1] = <<>>
        /\ results.guesses # <<>>
        /\ Len(results.prompts) = 1

\* C17: the pool of every story being judged has exactly N entries, one labelled
\* with each model: the entry of the original author is the authentic second_half,
\* the entry of every other model is that model's continuation of this story; and
\* no Continuation record, in a round or in the prompt log, has a model continuing
\* its own story.
C17_PoolOnePerModel ==
    /\ \A r \in Rounds :
        rounds[r].pc = "ident" =>
            LET rd == rounds[r]
                O == rd.original_stories[rd.j]
            IN  /\ Len(rd.all_continuations) = NumModels
                /\ Len(rd.continuation_authors) = NumModels
                /\ \A m \in ModelSet :
                      Cardinality({k \in 1..Len(rd.continuation_authors) :
                                      rd.continuation_authors[k] = m}) = 1
                /\ \A k \in 1..Len(rd.continuation_authors) :
                      IF rd.continuation_authors[k] = O.model
                      THEN rd.all_continuations[k] = O.second_half
                      ELSE \E c \in 1..Len(rd.continuations) :
                              /\ rd.continuations[c].original_model = O.model
                              /\ rd.continuations[c].continuing_model
                                    = rd.continuation_authors[k]
                              /\ rd.continuations[c].continuation = rd.all_continuations[k]
    /\ \A r \in Rounds : \A c \in 1..Len(rounds[r].continuations) :
          rounds[r].continuations[c].continuing_model
             # rounds[r].continuations[c].original_model
    /\ \A p \in 1..Len(results.prompts) : \A c \in 1..Len(results.prompts[p].continuations) :
          results.prompts[p].continuations[c].continuing_model
             # results.prompts[p].continuations[c].original_model

\* the pool of the last story is being judged, an imitation first, the texts of
\* the pool all different
C17_Witness ==
    \E r \in Rounds :
        /\ rounds[r].pc = "ident"
        /\ rounds[r].j = NumModels
        /\ rounds[r].continuation_authors[1] # rounds[r].original_stories[rounds[r].j].model
        /\ \A a, b \in 1..Len(rounds[r].all_continuations) :
              rounds[r].all_continuations[a] = rounds[r].all_continuations[b] => a = b

\* C18: every step of the session (a round's step, the averaging, the return)
\* keeps each Guess record of the guess log at its position with all its fields,
\* and the returned results hold the same log.
C18_GuessLogAppendOnly ==
    /\ [][ /\ Len(results'.guesses) >= Len(results.guesses)
           /\ \A k \in 1..Len(results.guesses) :
                 /\ results'.guesses[k].guessing_model = results.guesses[k].guessing_model
                 /\ results'.guesses[k].original_model = results.guesses[k].original_model
                 /\ results'.guesses[k].ranking = results.guesses[k].ranking
                 /\ results'.guesses[k].correct_index = results.guesses[k].correct_index
                 /\ results'.guesses[k].rank_of_correct = results.guesses[k].rank_of_correct
         ]_vars
    /\ [](returned # <<>> => returned[1].guesses = results.guesses)

\* a returned session of two rounds in which every response was parsed: the log
\* holds 2 * N * N records
C18_Witness ==
    /\ session = "returned"
    /\ Len(returned[1].guesses) = 2 * NumModels * NumModels

\* a round has failed
Failed == \E r \in Rounds : rounds[r].pc = "failed"

\* round r is through, one way or the other
Ended(r) == rounds[r].pc \in {"idle", "done", "failed", "cancelled"}

\* the failure is surfaced: once a round has failed the session is being cancelled
\* or has raised, nothing is averaged and nothing is returned, then or later
Surfaced ==
    /\ [](Failed => session \in {"cancelling", "error"} /\ returned = <<>>)
    /\ [][session = "cancelling" => session' \in {"cancelling", "error"}]_vars
    /\ [][session = "error" => session' = "error"]_vars
    /\ [](session = "cancelling" => ENABLED NextFaulty)

OneRecordPerPrompt ==
    /\ Len(returned[1].prompts) = num_prompts
    /\ \A k \in 1..num_prompts :
          Cardinality({x \in 1..Len(returned[1].prompts) :
                          /\ returned[1].prompts[x].prompt_text = selected[k][1]
                          /\ returned[1].prompts[x].target_length = selected[k][2]}) = 1

\* C20: under fair scheduling, with every gateway call returning, for a capacity
\* of 1 or more and num_prompts within the pool: every started round gets a
\* token and gets through, the session returns, and the returned prompt log
\* holds exactly num_prompts records, one for each selected prompt.
C20_EveryRoundCompletes ==
    /\ [](\A r \in Rounds : rounds[r].pc \in {"orig", "cont", "shuffle", "ident"} =>
                               r \in borrowers)
    /\ \A r \in Rounds : (rounds[r].pc \in {"start", "waiting"}) ~> (rounds[r].pc = "orig")
    /\ \A r \in Rounds : (rounds[r].pc \in {"start", "waiting"}) ~> (rounds[r].pc = "done")
    /\ (session = "init" /\ num_prompts <= Len(prompts))
          ~> (session = "returned" /\ returned # <<>> /\ OneRecordPerPrompt)
    /\ [](num_prompts <= Len(prompts) => session # "error")

\* a returned session with the capacity of the code, both prompts of the pool
\* selected, in which the round of the second selected prompt was through first
C20_Witness ==
    /\ session = "returned"
    /\ capacity = CAPACITY_LIMIT
    /\ num_prompts = Len(prompts)
    /\ OneRecordPerPrompt
    /\ returned[1].prompts[1].prompt_text = selected[2][1]
    /\ returned[1].prompts[1].prompt_text # returned[1].prompts[2].prompt_text

\* C21: for every Guess that an identification step records, rank_of_correct is 1
\* exactly when the top pick ranking[0] is correct_index + 1, which is exactly when
\* the step added 1 to the judge's correct_guesses; the rank it appends to the
\* judge's average_rank sequence is the same number, so a guess counted as fooled
\* or invalid never adds a rank of 1 (for every ranking the parser returns,
\* rankings of length 1 without the authentic number included).
C21_RankOneIffCorrectTopPick ==
    [][ \A r \in Rounds :
          (Judges(r) /\ Judged(r) # <<>>) =>
             LET J == models[rounds[r].i]
                 p == results.model_performance[J]
                 q == results'.model_performance[J]
                 g == results'.guesses[Len(results'.guesses)]
                 correct == (Judged(r)[1] = rounds[r].correct_index + 1)
             IN  /\ Len(results'.guesses) = Len(results.guesses) + 1
                 /\ g.ranking = Judged(r)
                 /\ (g.rank_of_correct = 1) <=> correct
                 /\ (q.correct_guesses = p.correct_guesses + 1) <=> correct
                 /\ q.average_rank = Append(p.average_rank, g.rank_of_correct)
      ]_vars

\* the logged guesses whose top pick is the authentic entry
CorrectPicks(log) == {k \in 1..Len(log) : log[k].ranking[1] = log[k].correct_index}

\* the sum of one counter over the models
RECURSIVE CounterSum(_, _, _)
CounterSum(perf, field, upto) ==
    IF upto = 0 THEN 0
    ELSE perf[models[upto]][field] + CounterSum(perf, field, upto - 1)

\* C22: in every state before the averaging, however the rounds interleave, the
\* counters agree with the guess log: each model's correct_guesses is the number
\* of logged guesses it made whose top pick ranking[0] is their correct_index, its
\* times_guessed_correctly the number of such guesses about its story; so the two
\* counters have the same sum over the models, and the sum of correct_guesses and
\* times_fooled_others is never more than the length of the guess log.
C22_CountersMatchGuessLog ==
    session \notin {"finalized", "returned"} =>
        LET log == results.guesses
            perf == results.model_performance
        IN  /\ \A m \in ModelSet :
                  /\ perf[m].correct_guesses
                       = Cardinality({k \in CorrectPicks(log) : log[k].guessing_model = m})
                  /\ perf[m].times_guessed_correctly
                       = Cardinality({k \in CorrectPicks(log) : log[k].original_model = m})
            /\ CounterSum(perf, "correct_guesses", NumModels)
                 = CounterSum(perf, "times_guessed_correctly", NumModels)
            /\ CounterSum(perf, "correct_guesses", NumModels)
                 + CounterSum(perf, "times_fooled_others", NumModels) <= Len(log)

\* two rounds between two identification calls at once, each with a scored
\* ranking behind it, the log holding a correct top pick about another model's
\* story and a wrong one, and a response that did not parse
C22_Witness ==
    /\ session = "running"
    /\ \A r \in Rounds :
          /\ rounds[r].pc = "ident"
          /\ \E k \in 1..Len(history[r].rankings) : history[r].rankings[k] # <<>>
    /\ \E r \in Rounds : \E k \in 1..Len(history[r].rankings) :
          history[r].rankings[k] = <<>>
    /\ \E k \in CorrectPicks(results.guesses) :
          results.guesses[k].guessing_model # results.guesses[k].original_model
    /\ \E k \in 1..Len(results.guesses) : k \notin CorrectPicks(results.guesses)
    /\ \E m \in ModelSet : results.model_performance[m].times_fooled_others > 0

====
